---- MODULE Spec2Model ----
(***************************************************************************)
(* Model of precompiles/utils/src/data.rs: the Solidity ABI reader         *)
(* (EvmDataReader), writer (EvmDataWriter) and the EvmData codec.          *)
(*                                                                         *)
(* Representation of the Rust values:                                      *)
(*   byte string (Vec<u8>, &[u8])  sequence of 0..255                      *)
(*   u8                            0..255                                  *)
(*   u16, u32, u64, u128, U256     sequence of 16-bit limbs, most          *)
(*                                 significant first (1, 2, 4, 8, 16)      *)
(*   usize                         4 limbs (a 64-bit target)               *)
(*   H256, Address                 32 and 20 bytes                         *)
(*   Bytes                         byte string                             *)
(*   Vec<T>, BoundedVec<T, S>, tuple   sequence of component values        *)
(*   Option<x>                     <<>> for None, <<x>> for Some(x)        *)
(* A type is <<"u8">>, ..., <<"Vec", T>>, <<"BoundedVec", T, N>>,          *)
(* <<"Tuple", <<T1, ..., Tk>>>>.                                           *)
(***************************************************************************)
EXTENDS Integers, Sequences, FiniteSets, TLC

VARIABLES
    phase,      \* position of the scenario being run
    ty,         \* codec: the type T of the value under test
    val,        \* codec: the value under test
    enc,        \* codec: encode(val)
    args,       \* codec: encode_arguments(val)
    cut,        \* codec: number of bytes removed from the end of enc
    dec,        \* codec: result of reading T from the (truncated) encoding
    reader,     \* reader: the EvmDataReader {input, cursor}
    last,       \* reader: the last operation, its argument, the reader before it and its result
    nops,       \* reader: number of operations done
    writer,     \* writer: the EvmDataWriter {data, offset_data, selector}
    log,        \* writer: the calls so far, <<T, v>> for write::<T>(v) and
                \* <<RawPointer, data>> for write_pointer(data)
    output      \* writer: Some(build()) once built

vars == <<phase, ty, val, enc, args, cut, dec, reader, last, nops, writer, log, output>>

----------------------------------------------------------------------------
(* Machine integers *)

Zeros(n) == [i \in 1..n |-> 0]

\* uN::to_be_bytes / U256::to_big_endian
LimbsToBytes(ls) ==
    [i \in 1..(2 * Len(ls)) |->
        IF i % 2 = 1 THEN ls[(i + 1) \div 2] \div 256 ELSE ls[i \div 2] % 256]

\* uN::from_be_bytes / U256::from_big_endian
BytesToLimbs(bs) ==
    [i \in 1..(Len(bs) \div 2) |-> bs[2 * i - 1] * 256 + bs[2 * i]]

\* a usize from a length the model holds as a number (always below 2^31)
Usize(n) == <<0, 0, n \div 65536, n % 65536>>

UsizeLeq(a, b) ==
    \/ a = b
    \/ \E i \in 1..4 : a[i] < b[i] /\ \A j \in 1..(i - 1) : a[j] = b[j]

\* usize::checked_add
CheckedAdd(a, b) ==
    LET s4 == a[4] + b[4]
        s3 == a[3] + b[3] + s4 \div 65536
        s2 == a[2] + b[2] + s3 \div 65536
        s1 == a[1] + b[1] + s2 \div 65536
    IN  [overflow |-> s1 >= 65536,
         sum |-> <<s1 % 65536, s2 % 65536, s3 % 65536, s4 % 65536>>]

\* a - b in usize when the build wraps on overflow
WrappingSub(a, b) ==
    LET d4 == a[4] - b[4]
        d3 == a[3] - b[3] - (IF d4 < 0 THEN 1 ELSE 0)
        d2 == a[2] - b[2] - (IF d3 < 0 THEN 1 ELSE 0)
        d1 == a[1] - b[1] - (IF d2 < 0 THEN 1 ELSE 0)
    IN  <<d1 % 65536, d2 % 65536, d3 % 65536, d4 % 65536>>

\* the number a usize holds, when it is the length of something in memory
UsizeVal(u) == u[3] * 65536 + u[4]

\* U256::from(usize)
U256FromUsize(u) == Zeros(12) \o u

\* TryInto<usize> for U256
U256TryIntoUsize(w) ==
    IF \A i \in 1..12 : w[i] = 0
    THEN [ok |-> TRUE, val |-> SubSeq(w, 13, 16)]
    ELSE [ok |-> FALSE, val |-> <<>>]

----------------------------------------------------------------------------
(* Types *)

TU8 == <<"u8">>
TU16 == <<"u16">>
TU32 == <<"u32">>
TU64 == <<"u64">>
TU128 == <<"u128">>
TU256 == <<"U256">>
TBool == <<"bool">>
TH256 == <<"H256">>
TAddress == <<"Address">>
TBytes == <<"Bytes">>
TVec(T) == <<"Vec", T>>
TBoundedVec(T, N) == <<"BoundedVec", T, N>>
TTuple(ts) == <<"Tuple", ts>>

Kind(T) == T[1]

\* core::mem::size_of::<Self>() of the impl_evmdata_for_uints! types
SizeOf(T) ==
    CASE Kind(T) = "u16" -> 2
      [] Kind(T) = "u32" -> 4
      [] Kind(T) = "u64" -> 8
      [] Kind(T) = "u128" -> 16

RECURSIVE HasStaticSize(_)
HasStaticSize(T) ==
    CASE Kind(T) \in {"Bytes", "Vec", "BoundedVec"} -> FALSE
      [] Kind(T) = "Tuple" -> \A i \in 1..Len(T[2]) : HasStaticSize(T[2][i])
      [] OTHER -> TRUE

\* EvmData::is_explicit_tuple: the trait's default body; no impl overrides it
IsExplicitTuple(T) == FALSE

----------------------------------------------------------------------------
(* EvmDataWriter *)

\* EvmDataWriter::new
NewWriter == [data |-> <<>>, offset_data |-> <<>>, selector |-> <<>>]

\* EvmDataWriter::new_with_selector
NewWriterWithSelector(s) == [data |-> <<>>, offset_data |-> <<>>, selector |-> <<s>>]

\* the usize output.len() - offset_shift of bake_offsets (wrapping where the
\* build does not trap the overflow)
FreeSpaceOffset(len, shift) == WrappingSub(Usize(len), Usize(shift))

\* EvmDataWriter::bake_offsets, from the i-th pending entry on
RECURSIVE BakeFrom(_, _, _)
BakeFrom(out, offsets, i) ==
    IF i > Len(offsets) THEN out
    ELSE LET od == offsets[i]
             word == LimbsToBytes(U256FromUsize(FreeSpaceOffset(Len(out), od.offset_shift)))
             patched == [j \in 1..Len(out) |->
                            IF j > od.offset_position /\ j <= od.offset_position + 32
                            THEN word[j - od.offset_position] ELSE out[j]]
         IN  BakeFrom(patched \o od.data, offsets, i + 1)

BakeOffsets(out, offsets) == BakeFrom(out, offsets, 1)

\* build with the selector put in front before the offsets are baked
BuildOffsetsFromSelector(w) ==
    IF w.selector = <<>> THEN BakeOffsets(w.data, w.offset_data)
    ELSE BakeOffsets(LimbsToBytes(w.selector[1]) \o w.data,
                     [j \in 1..Len(w.offset_data) |->
                         [w.offset_data[j] EXCEPT !.offset_position = @ + 4]])

\* EvmDataWriter::build
Build(w) ==
    LET data == BakeOffsets(w.data, w.offset_data)
    IN  IF w.selector # <<>> THEN LimbsToBytes(w.selector[1]) \o data ELSE data

\* EvmDataWriter::write_raw_bytes
WriteRawBytes(w, value) == [w EXCEPT !.data = @ \o value]

\* H256::write
WriteH256(w, value) == [w EXCEPT !.data = @ \o value]

\* write_pointer recording the position after the placeholder word
WritePointerAfterPlaceholder(w, data) ==
    LET placed == WriteH256(w, [i \in 1..32 |-> 255])
    IN  [placed EXCEPT !.offset_data =
            Append(@, [offset_position |-> Len(placed.data), data |-> data,
                       offset_shift |-> 0])]

\* EvmDataWriter::write_pointer
WritePointer(w, data) ==
    LET placed == WriteH256(w, [i \in 1..32 |-> 255])
    IN  [placed EXCEPT !.offset_data =
            Append(@, [offset_position |-> Len(w.data), data |-> data, offset_shift |-> 0])]

\* U256::write
WriteU256(w, value) == [w EXCEPT !.data = @ \o LimbsToBytes(value)]

\* impl_evmdata_for_uints!: write
WriteUint(w, T, value) ==
    [w EXCEPT !.data = @ \o Zeros(32 - SizeOf(T)) \o LimbsToBytes(value)]

\* u8::write
WriteU8(w, value) == [w EXCEPT !.data = @ \o Zeros(31) \o <<value>>]

\* bool::write
WriteBool(w, value) == [w EXCEPT !.data = @ \o Zeros(31) \o <<IF value THEN 1 ELSE 0>>]

\* Address::write (H160 into H256 pads on the left)
WriteAddress(w, value) == WriteH256(w, Zeros(12) \o value)

\* the padded body of Bytes::write
PaddedBytes(value) ==
    LET length == Len(value)
        chunks == length \div 32
        padded_size == IF length % 32 = 0 THEN chunks * 32 ELSE (chunks + 1) * 32
    IN  value \o Zeros(padded_size - length)

\* Bytes::write
WriteBytes(w, value) ==
    WritePointer(w,
        Build(WriteRawBytes(WriteU256(NewWriter, U256FromUsize(Usize(Len(value)))),
                            PaddedBytes(value))))

\* Relocate without the offset_shift correction
RelocateNoShift(offsets, shift) ==
    [j \in 1..Len(offsets) |-> [offsets[j] EXCEPT !.offset_position = @ + shift]]

\* the relocation of an item's pending entries in Vec::write
Relocate(offsets, shift) ==
    [j \in 1..Len(offsets) |->
        [offsets[j] EXCEPT !.offset_shift = @ + 32, !.offset_position = @ + shift]]

RECURSIVE Write(_, _, _), WriteComponents(_, _, _, _), WriteItems(_, _, _, _)

\* the for_tuples! sequence of component writes, from the i-th on
WriteComponents(w, ts, vs, i) ==
    IF i > Len(ts) THEN w
    ELSE WriteComponents(Write(w, ts[i], vs[i]), ts, vs, i + 1)

\* the loop of Vec::write and BoundedVec::write, from the i-th item on
WriteItems(inner, T, vs, i) ==
    IF i > Len(vs) THEN inner
    ELSE LET shift == Len(inner.data)
             item_writer == Write(NewWriter, T, vs[i])
             spliced == WriteRawBytes(inner, item_writer.data)
         IN  WriteItems(
                 [spliced EXCEPT !.offset_data = @ \o Relocate(item_writer.offset_data, shift)],
                 T, vs, i + 1)

\* Vec::write
WriteVec(w, T, value) ==
    WritePointer(w,
        Build(WriteItems(WriteU256(NewWriter, U256FromUsize(Usize(Len(value)))), T, value, 1)))

\* BoundedVec::write
WriteBoundedVec(w, T, value) ==
    WritePointer(w,
        Build(WriteItems(WriteU256(NewWriter, U256FromUsize(Usize(Len(value)))), T, value, 1)))

\* impl EvmData for Tuple: write
WriteTuple(w, ts, value) ==
    IF ~HasStaticSize(TTuple(ts))
    THEN WritePointer(w, Build(WriteComponents(NewWriter, ts, value, 1)))
    ELSE WriteComponents(w, ts, value, 1)

\* EvmDataWriter::write::<T>
Write(w, T, v) ==
    CASE Kind(T) = "u8" -> WriteU8(w, v)
      [] Kind(T) \in {"u16", "u32", "u64", "u128"} -> WriteUint(w, T, v)
      [] Kind(T) = "U256" -> WriteU256(w, v)
      [] Kind(T) = "bool" -> WriteBool(w, v)
      [] Kind(T) = "H256" -> WriteH256(w, v)
      [] Kind(T) = "Address" -> WriteAddress(w, v)
      [] Kind(T) = "Bytes" -> WriteBytes(w, v)
      [] Kind(T) = "Vec" -> WriteVec(w, T[2], v)
      [] Kind(T) = "BoundedVec" -> WriteBoundedVec(w, T[2], v)
      [] Kind(T) = "Tuple" -> WriteTuple(w, T[2], v)

\* encode
Encode(T, v) == Build(Write(NewWriter, T, v))

\* the writers that T::write(writer, v) creates with EvmDataWriter::new(): the
\* inner writer of Bytes, Vec, BoundedVec and dynamic tuples as it stands when
\* build() is called on it, the item writers of Vec and BoundedVec, and the
\* writers their components create in turn
RECURSIVE InnerWriters(_, _)
InnerWriters(T, v) ==
    CASE Kind(T) = "Bytes" ->
            {WriteRawBytes(WriteU256(NewWriter, U256FromUsize(Usize(Len(v)))),
                           PaddedBytes(v))}
      [] Kind(T) \in {"Vec", "BoundedVec"} ->
            {WriteItems(WriteU256(NewWriter, U256FromUsize(Usize(Len(v)))), T[2], v, 1)}
            \cup {Write(NewWriter, T[2], v[i]) : i \in 1..Len(v)}
            \cup UNION {InnerWriters(T[2], v[i]) : i \in 1..Len(v)}
      [] Kind(T) = "Tuple" ->
            (IF HasStaticSize(T) THEN {} ELSE {WriteComponents(NewWriter, T[2], v, 1)})
            \cup UNION {InnerWriters(T[2][i], v[i]) : i \in 1..Len(v)}
      [] OTHER -> {}

\* encode_arguments
EncodeArguments(T, v) ==
    LET out == Encode(T, v)
    IN  IF IsExplicitTuple(T) /\ ~HasStaticSize(T) THEN SubSeq(out, 33, Len(out)) ELSE out

----------------------------------------------------------------------------
(* EvmDataReader *)

\* EvmResult: Ok(val) or Err(revert(err)), with the reader as the call left it.
\* panic marks a call that aborted instead of returning.
Ok(v, rd) == [ok |-> TRUE, val |-> v, err |-> "", panic |-> FALSE, rd |-> rd]
Err(e, rd) == [ok |-> FALSE, val |-> <<>>, err |-> e, panic |-> FALSE, rd |-> rd]
Panic(rd) == [ok |-> FALSE, val |-> <<>>, err |-> "", panic |-> TRUE, rd |-> rd]

\* EvmDataReader::new
NewReader(input) == [input |-> input, cursor |-> Usize(0)]

\* move_cursor once checked_add has given end; val is the range start..end
CursorMoved(r, end) ==
    IF end.overflow THEN Err("data reading cursor overflow", r)
    ELSE Ok([start |-> r.cursor, end |-> end.sum], [r EXCEPT !.cursor = end.sum])

\* EvmDataReader::move_cursor
MoveCursor(r, len) == CursorMoved(r, CheckedAdd(r.cursor, len))

\* <[u8]>::get(range): Some(slice) iff start <= end <= len
SliceGet(input, range) ==
    IF UsizeLeq(range.start, range.end) /\ UsizeLeq(range.end, Usize(Len(input)))
    THEN <<SubSeq(input, UsizeVal(range.start) + 1, UsizeVal(range.end))>>
    ELSE <<>>

\* input.get(range).ok_or_else(|| revert(msg))?
GetOrRevert(data, msg, rd) == IF data = <<>> THEN Err(msg, rd) ELSE Ok(data[1], rd)

\* let range = move_cursor(len)?; input.get(range).ok_or_else(|| revert(msg))?
RangeRead(input, moved, msg) ==
    IF ~moved.ok THEN moved ELSE GetOrRevert(SliceGet(input, moved.val), msg, moved.rd)

ReadRange(r, len, msg) == RangeRead(r.input, MoveCursor(r, len), msg)

\* EvmDataReader::read_raw_bytes
ReadRawBytes(r, len) == ReadRange(r, len, "tried to parse raw bytes out of bounds")

\* H256::read
ReadH256(r) == ReadRange(r, Usize(32), "tried to parse H256 out of bounds")

\* Ok(H160::from_slice(&data[12..32]).into())
AddressOf(w) == IF ~w.ok THEN w ELSE Ok(SubSeq(w.val, 13, 32), w.rd)

\* Address::read
ReadAddress(r) == AddressOf(ReadRange(r, Usize(32), "tried to parse H160 out of bounds"))

\* Ok(U256::from_big_endian(data))
U256Of(w) == IF ~w.ok THEN w ELSE Ok(BytesToLimbs(w.val), w.rd)

\* U256::read
ReadU256(r) == U256Of(ReadRange(r, Usize(32), "tried to parse U256 out of bounds"))

\* buffer.copy_from_slice(&data[32 - size_of::<Self>()..]); Ok(Self::from_be_bytes(buffer))
UintOf(w, T) ==
    IF ~w.ok THEN w ELSE Ok(BytesToLimbs(SubSeq(w.val, 32 - SizeOf(T) + 1, 32)), w.rd)

\* impl_evmdata_for_uints!: read
ReadUint(r, T) ==
    UintOf(ReadRange(r, Usize(32), "tried to parse " \o Kind(T) \o " out of bounds"), T)

\* Ok(data[31])
U8Of(w) == IF ~w.ok THEN w ELSE Ok(w.val[32], w.rd)

\* u8::read
ReadU8(r) == U8Of(ReadRange(r, Usize(32), "tried to parse u64 out of bounds"))

\* H256::read(reader).map_err(..)?; Ok(!h256.is_zero())
BoolOf(h256) ==
    IF ~h256.ok THEN Err("tried to parse bool out of bounds", h256.rd)
    ELSE Ok(h256.val # Zeros(32), h256.rd)

\* bool::read
ReadBool(r) == BoolOf(ReadH256(r))

\* PointerTo accepting an offset equal to the input length
PointerToInclusive(input, offset, rd) ==
    IF ~offset.ok THEN Err("array offset is too large", rd)
    ELSE IF ~UsizeLeq(offset.val, Usize(Len(input)))
         THEN Err("pointer points out of bounds", rd)
    ELSE Ok([input |-> SubSeq(input, UsizeVal(offset.val) + 1, Len(input)),
             cursor |-> Usize(0)], rd)

\* read_pointer from the bounds check on
PointerTo(input, offset, rd) ==
    IF ~offset.ok THEN Err("array offset is too large", rd)
    ELSE IF UsizeLeq(Usize(Len(input)), offset.val)
         THEN Err("pointer points out of bounds", rd)
    ELSE Ok([input |-> SubSeq(input, UsizeVal(offset.val) + 1, Len(input)),
             cursor |-> Usize(0)], rd)

\* read_pointer once the offset word is read
PointerOf(input, word) ==
    IF ~word.ok THEN Err("tried to parse array offset out of bounds", word.rd)
    ELSE PointerTo(input, U256TryIntoUsize(word.val), word.rd)

\* EvmDataReader::read_pointer; val is the reader over the pointed location
ReadPointer(r) == PointerOf(r.input, ReadU256(r))

\* EvmDataReader::read_till_end. input.len() - cursor overflows when the
\* cursor is past the end: a build with overflow checks aborts there, one
\* without wraps.
ReadTillEnd(r, overflow_checks) ==
    IF ~UsizeLeq(r.cursor, Usize(Len(r.input))) /\ overflow_checks THEN Panic(r)
    ELSE ReadRange(r, WrappingSub(Usize(Len(r.input)), r.cursor),
                   "tried to parse raw bytes out of bounds")

\* .try_into().map_err(|_| revert(msg_large))? of an array size; inner is the inner reader
SizeInto(size, msg_large, inner, rd) ==
    IF ~size.ok THEN Err(msg_large, rd) ELSE Ok(size.val, inner)

\* the array_size of Vec::read, BoundedVec::read and Bytes::read, or the error
ArraySizeOf(size_word, msg_bounds, msg_large, rd) ==
    IF ~size_word.ok THEN Err(msg_bounds, rd)
    ELSE SizeInto(U256TryIntoUsize(size_word.val), msg_large, size_word.rd, rd)

\* the outcome of an inner reader's read, returned by the outer read
Outcome(inner, rd) == IF ~inner.ok THEN Err(inner.err, rd) ELSE Ok(inner.val, rd)

\* BytesBody demanding the whole padded words of the body
BytesBodyWholeWords(size, rd) ==
    IF ~size.ok THEN size
    ELSE Outcome(ReadRange(size.rd, Usize(((UsizeVal(size.val) + 31) \div 32) * 32),
                           "tried to parse bytes/string out of bounds"), rd)

\* Bytes::read once array_size is read; size.rd is the inner reader
BytesBody(size, rd) ==
    IF ~size.ok THEN size
    ELSE Outcome(ReadRange(size.rd, size.val, "tried to parse bytes/string out of bounds"), rd)

\* Bytes::read once the pointer is followed
BytesAt(ptr) ==
    IF ~ptr.ok THEN ptr
    ELSE BytesBody(ArraySizeOf(ReadU256(ptr.val),
                               "tried to parse bytes/string length out of bounds",
                               "bytes/string length is too large", ptr.rd),
                   ptr.rd)

\* Bytes::read
ReadBytes(r) == BytesAt(ReadPointer(r))

RECURSIVE Read(_, _), ReadComponents(_, _, _), ReadItems(_, _, _, _)

\* the next component read of for_tuples!, then the rest
ComponentRead(c, ts, acc) ==
    IF ~c.ok THEN c ELSE ReadComponents(c.rd, ts, Append(acc, c.val))

\* the for_tuples! sequence of component reads; acc holds the components read
ReadComponents(r, ts, acc) ==
    IF Len(acc) = Len(ts) THEN Ok(acc, r)
    ELSE ComponentRead(Read(ts[Len(acc) + 1], r), ts, acc)

\* array.push(item_reader.read()?), then the rest of the loop
ItemRead(item, T, array_size, array) ==
    IF ~item.ok THEN item ELSE ReadItems(item.rd, T, array_size, Append(array, item.val))

\* for _ in 0..array_size { array.push(item_reader.read()?) }
ReadItems(item_reader, T, array_size, array) ==
    IF Usize(Len(array)) = array_size THEN Ok(array, item_reader)
    ELSE ItemRead(Read(T, item_reader), T, array_size, array)

\* Vec::read once array_size is read; size.rd is inner_reader
VecBody(size, T, rd) ==
    IF ~size.ok THEN size
    ELSE IF Len(size.rd.input) < 32 THEN Err("try to read array items out of bound", rd)
    ELSE Outcome(ReadItems(NewReader(SubSeq(size.rd.input, 33, Len(size.rd.input))),
                           T, size.val, <<>>), rd)

\* Vec::read once the pointer is followed
VecAt(ptr, T) ==
    IF ~ptr.ok THEN ptr
    ELSE VecBody(ArraySizeOf(ReadU256(ptr.val), "tried to parse array length out of bounds",
                             "array length is too large", ptr.rd),
                 T, ptr.rd)

\* Vec::read
ReadVec(r, T) == VecAt(ReadPointer(r), T)

\* BoundedVecBody rejecting N items already
BoundedVecBodyOffByOne(size, T, N, rd) ==
    IF ~size.ok THEN size
    ELSE IF UsizeLeq(Usize(N), size.val)
         THEN Err("value too large : Array has more than max items allowed", rd)
    ELSE IF Len(size.rd.input) < 32 THEN Err("read out of bounds: array content", rd)
    ELSE Outcome(ReadItems(NewReader(SubSeq(size.rd.input, 33, Len(size.rd.input))),
                           T, size.val, <<>>), rd)

\* BoundedVec::read once array_size is read; N is S::get()
BoundedVecBody(size, T, N, rd) ==
    IF ~size.ok THEN size
    ELSE IF ~UsizeLeq(size.val, Usize(N))
         THEN Err("value too large : Array has more than max items allowed", rd)
    ELSE IF Len(size.rd.input) < 32 THEN Err("read out of bounds: array content", rd)
    ELSE Outcome(ReadItems(NewReader(SubSeq(size.rd.input, 33, Len(size.rd.input))),
                           T, size.val, <<>>), rd)

\* BoundedVec::read once the pointer is followed
BoundedVecAt(ptr, T, N) ==
    IF ~ptr.ok THEN ptr
    ELSE BoundedVecBody(
             ArraySizeOf(ReadU256(ptr.val), "out of bounds: length of array",
                         "value too large : Array has more than max items allowed", ptr.rd),
             T, N, ptr.rd)

\* BoundedVec::read
ReadBoundedVec(r, T, N) == BoundedVecAt(ReadPointer(r), T, N)

\* the dynamic branch of the tuple read once the pointer is followed
TupleAt(ptr, ts) ==
    IF ~ptr.ok THEN ptr ELSE Outcome(ReadComponents(ptr.val, ts, <<>>), ptr.rd)

\* impl EvmData for Tuple: read
ReadTuple(r, ts) ==
    IF ~HasStaticSize(TTuple(ts)) THEN TupleAt(ReadPointer(r), ts)
    ELSE ReadComponents(r, ts, <<>>)

\* EvmDataReader::read::<T>
Read(T, r) ==
    CASE Kind(T) = "u8" -> ReadU8(r)
      [] Kind(T) \in {"u16", "u32", "u64", "u128"} -> ReadUint(r, T)
      [] Kind(T) = "U256" -> ReadU256(r)
      [] Kind(T) = "bool" -> ReadBool(r)
      [] Kind(T) = "H256" -> ReadH256(r)
      [] Kind(T) = "Address" -> ReadAddress(r)
      [] Kind(T) = "Bytes" -> ReadBytes(r)
      [] Kind(T) = "Vec" -> ReadVec(r, T[2])
      [] Kind(T) = "BoundedVec" -> ReadBoundedVec(r, T[2], T[3])
      [] Kind(T) = "Tuple" -> ReadTuple(r, T[2])

\* read_selector once the length is checked
SelectorOf(selector, known, input) ==
    IF selector \in known THEN Ok(selector, NewReader(input))
    ELSE Err("unknown selector", NewReader(input))

\* EvmDataReader::read_selector::<T>; known is the set of discriminants of T
ReadSelector(input, known) ==
    IF Len(input) < 4 THEN Err("tried to parse selector out of bounds", NewReader(input))
    ELSE SelectorOf(BytesToLimbs(SubSeq(input, 1, 4)), known, input)

\* new_skip_selector rejecting an input of exactly 4 bytes
NewSkipSelectorOffByOne(input) ==
    IF Len(input) <= 4 THEN Err("input is too short", NewReader(input))
    ELSE Ok(NewReader(SubSeq(input, 5, Len(input))), NewReader(input))

\* EvmDataReader::new_skip_selector
NewSkipSelector(input) ==
    IF Len(input) < 4 THEN Err("input is too short", NewReader(input))
    ELSE Ok(NewReader(SubSeq(input, 5, Len(input))), NewReader(input))

----------------------------------------------------------------------------
(* The values the scenarios draw from *)

MaxVecLen == 3      \* longest Vec / BoundedVec value
MaxBound == 2       \* largest S::get() of a BoundedVec type
MaxOps == 3         \* reader operations per scenario
MaxWrites == 2      \* writer writes per scenario

RECURSIVE Product(_)
\* all sequences s with s[i] \in sets[i]
Product(sets) ==
    IF sets = <<>> THEN {<<>>}
    ELSE {<<x>> \o rest : x \in sets[1], rest \in Product(Tail(sets))}

SeqsUpTo(S, n) == UNION {[1..m -> S] : m \in 0..n}

W(n) == U256FromUsize(Usize(n))
U256Max == [i \in 1..16 |-> 65535]
Dave == <<100, 97, 118, 101>>
OkStr == <<111, 107>>
Blob(n) == [i \in 1..n |-> ((i * 7) % 255) + 1]
BlobLens == {0, 1, 31, 32, 33, 40, 63, 64}

RECURSIVE Sample(_)
\* a few values of each type, the components of composite values
Sample(T) ==
    CASE Kind(T) = "u8" -> {0, 255}
      [] Kind(T) \in {"u16", "u32", "u64", "u128"} ->
            {[i \in 1..(SizeOf(T) \div 2) |-> i], [i \in 1..(SizeOf(T) \div 2) |-> 65535]}
      [] Kind(T) = "U256" -> {W(1), U256Max}
      [] Kind(T) = "bool" -> BOOLEAN
      [] Kind(T) = "H256" -> {Zeros(32), [i \in 1..32 |-> i]}
      [] Kind(T) = "Address" -> {Zeros(20), [i \in 1..20 |-> 160 + i]}
      [] Kind(T) = "Bytes" -> {Blob(0), Dave, Blob(33)}
      [] Kind(T) \in {"Vec", "BoundedVec"} -> {<<>>} \cup {<<x>> : x \in Sample(T[2])}
      [] Kind(T) = "Tuple" -> Product([i \in 1..Len(T[2]) |-> Sample(T[2][i])])

\* the values of type T a scenario starts from
Values(T) ==
    CASE Kind(T) = "u8" -> {0, 1, 255}
      [] Kind(T) \in {"u16", "u32", "u64", "u128"} ->
            Sample(T) \cup {Zeros(SizeOf(T) \div 2), [i \in 1..(SizeOf(T) \div 2) |-> 4660 + i]}
      [] Kind(T) = "U256" -> {W(0), W(1), W(5), U256Max, <<32768>> \o Zeros(15)}
      [] Kind(T) = "H256" -> Sample(T) \cup {[i \in 1..32 |-> 255]}
      [] Kind(T) = "Bytes" -> {Dave, OkStr, <<1, 0>>} \cup {Blob(n) : n \in BlobLens}
      [] Kind(T) \in {"Vec", "BoundedVec"} -> SeqsUpTo(Sample(T[2]), MaxVecLen)
      [] Kind(T) = "Tuple" /\ Len(T[2]) > 3 ->
            {[i \in 1..Len(T[2]) |-> CHOOSE x \in Sample(T[2][i]) : TRUE]}
      [] OTHER -> Sample(T)

StaticTypes == {TU8, TU16, TU32, TU64, TU128, TU256, TBool, TH256, TAddress}

VecTypes ==
    {TVec(TU256), TVec(TU8), TVec(TBytes), TVec(TVec(TU256)),
     TVec(TTuple(<<TU256, TBytes>>)), TVec(TTuple(<<TU8, TAddress>>))}

BoundedVecTypes == {TBoundedVec(T, N) : T \in {TU256, TBytes}, N \in 0..MaxBound}

TupleTypes ==
    {TTuple(<<TU256>>), TTuple(<<TBytes>>), TTuple(<<TVec(TU256)>>),
     TTuple(<<TU256, TBytes>>), TTuple(<<TBytes, TU256>>),
     TTuple(<<TAddress, TBool>>),
     TTuple(<<TU256, TBytes, TVec(TU256)>>),
     TTuple(<<TTuple(<<TU256, TBytes>>), TU256>>),
     TTuple(<<TTuple(<<TU8, TU16>>), TBytes>>),
     TTuple([i \in 1..18 |-> TBool])}

CodecTypes == StaticTypes \cup {TBytes} \cup VecTypes \cup BoundedVecTypes \cup TupleTypes

\* the worked examples: (U256, bytes, U256[]) with a 40-byte buffer and three items,
\* (bytes,) "dave", (U256[],) [1, 2, 3], (U256, bytes) (5, "ok")
Examples ==
    {<<TTuple(<<TU256, TBytes, TVec(TU256)>>), <<W(5), Blob(40), <<W(1), W(2), W(3)>>>>>>,
     <<TTuple(<<TBytes>>), <<Dave>>>>,
     <<TTuple(<<TVec(TU256)>>), <<<<W(1), W(2), W(3)>>>>>>,
     <<TTuple(<<TU256, TBytes>>), <<W(5), OkStr>>>>}

TypedValues == UNION {{<<T, v>> : v \in Values(T)} : T \in CodecTypes} \cup Examples

\* the numbers of bytes removed from the end of an encoding
Truncations == {1, 31, 32, 33}

\* the u32 selectors, two 16-bit limbs each
Selectors == {<<4660, 22136>>, <<43269, 40123>>, <<0, 0>>}

\* the user enumerations read_selector is instantiated with, as sets of discriminants
Enumerations == {{}, {<<4660, 22136>>}, {<<4660, 22136>>, <<43269, 40123>>}}

UsizeMax == <<65535, 65535, 65535, 65535>>

\* the inputs handed to a reader: encodings, and words followed by a tail
PointerWords ==
    {W(0), W(32), W(64), W(65), W(96), U256FromUsize(<<0, 1, 0, 0>>),
     U256FromUsize(UsizeMax), <<0, 1>> \o Zeros(14), U256Max}

ReaderInputs ==
    {Blob(n) : n \in {0, 3, 4, 5, 31}}
    \cup {LimbsToBytes(s) \o Blob(n) : s \in Selectors, n \in {0, 33}}
    \cup {LimbsToBytes(w) \o Blob(n) : w \in PointerWords, n \in {0, 32, 33}}
    \cup {Encode(TBytes, Dave), Encode(TVec(TU256), <<W(1), W(2)>>)}

\* the types of the reader scenario's typed reads
ReadTypes == {TH256, TU256, TU8, TU32, TBool, TAddress, TBytes}

\* the lengths given to read_raw_bytes
RawLens == {Usize(0), Usize(1), Usize(32), Usize(33), UsizeMax}

\* the values of the writer scenario's writes
WriteChoices ==
    {<<TU256, W(5)>>, <<TBool, TRUE>>, <<TBytes, Dave>>, <<TBytes, Blob(33)>>,
     <<TVec(TU256), <<W(1), W(2), W(3)>>>>, <<TVec(TBytes), <<Dave, OkStr>>>>,
     <<TTuple(<<TU256, TBytes>>), <<W(5), OkStr>>>>,
     <<TTuple(<<TAddress, TBool>>), <<Zeros(20), TRUE>>>>,
     <<TVec(TVec(TU256)), <<<<W(1)>>, <<>>, <<W(2), W(3)>>>>>>,
     <<TBoundedVec(TBytes, 2), <<Blob(33), Dave>>>>,
     <<TVec(TTuple(<<TU256, TBytes>>)), <<<<W(5), OkStr>>, <<W(1), Dave>>>>>>}

\* the payloads handed to write_pointer directly
PointerPayloads == {<<>>, <<1, 2, 3>>, [i \in 1..32 |-> 255]}

\* the log's mark of a direct write_pointer call, in the place of a type
RawPointer == <<"write_pointer">>

----------------------------------------------------------------------------
(* State machine *)

NoResult == Err("", NewReader(<<>>))
NoOp == [op |-> "none", arg |-> <<>>, before |-> NewReader(<<>>), res |-> NoResult]

CodecIdle ==
    /\ ty = TBool /\ val = FALSE /\ enc = <<>> /\ args = <<>> /\ cut = 0 /\ dec = NoResult
ReaderIdle == reader = NewReader(<<>>) /\ last = NoOp /\ nops = 0
WriterIdle == writer = NewWriter /\ log = <<>> /\ output = <<>>

CodecVars == <<ty, val, enc, args, cut, dec>>
ReaderVars == <<reader, last, nops>>
WriterVars == <<writer, log, output>>

(* Codec scenario: a value is encoded, and its encoding, whole or truncated, is read back *)

InitCodec ==
    /\ phase = "value"
    /\ \E tv \in TypedValues : ty = tv[1] /\ val = tv[2]
    /\ enc = <<>> /\ args = <<>> /\ cut = 0 /\ dec = NoResult
    /\ ReaderIdle /\ WriterIdle

\* encode(val)
DoEncode ==
    /\ phase = "value"
    /\ enc' = Encode(ty, val)
    /\ phase' = "encoded"
    /\ UNCHANGED <<ty, val, args, cut, dec, ReaderVars, WriterVars>>

\* encode_arguments(val)
DoEncodeArguments ==
    /\ phase = "encoded"
    /\ args' = EncodeArguments(ty, val)
    /\ phase' = "arguments"
    /\ UNCHANGED <<ty, val, enc, cut, dec, ReaderVars, WriterVars>>

\* EvmDataReader::new(&enc).read::<T>()
DoDecode ==
    /\ phase = "encoded"
    /\ dec' = Read(ty, NewReader(enc))
    /\ phase' = "decoded"
    /\ UNCHANGED <<ty, val, enc, args, cut, ReaderVars, WriterVars>>

\* EvmDataReader::new(&enc[..enc.len() - k]).read::<T>()
DoDecodeTruncated(k) ==
    /\ phase = "encoded"
    /\ k <= Len(enc)
    /\ cut' = k
    /\ dec' = Read(ty, NewReader(SubSeq(enc, 1, Len(enc) - k)))
    /\ phase' = "decoded"
    /\ UNCHANGED <<ty, val, enc, args, ReaderVars, WriterVars>>

NextCodec ==
    \/ DoEncode
    \/ DoEncodeArguments
    \/ DoDecode
    \/ \E k \in Truncations : DoDecodeTruncated(k)

SpecCodec == InitCodec /\ [][NextCodec]_vars

(* Reader scenario: operations on a reader over a given input *)

InitReader ==
    /\ phase = "reading"
    /\ \E input \in ReaderInputs : reader = NewReader(input)
    /\ last = NoOp /\ nops = 0
    /\ CodecIdle /\ WriterIdle

\* a &mut self operation returned res and left the reader as res.rd
Returned(op, arg, res) ==
    /\ last' = [op |-> op, arg |-> arg, before |-> reader, res |-> res]
    /\ reader' = res.rd
    /\ nops' = nops + 1
    /\ phase' = IF res.panic THEN "aborted" ELSE phase
    /\ UNCHANGED <<CodecVars, WriterVars>>

\* reader.read::<T>()
RdRead(T) ==
    /\ phase = "reading" /\ nops < MaxOps
    /\ Returned("read", T, Read(T, reader))

\* reader.read_raw_bytes(len)
RdReadRawBytes(len) ==
    /\ phase = "reading" /\ nops < MaxOps
    /\ Returned("read_raw_bytes", len, ReadRawBytes(reader, len))

\* reader.read_pointer()
RdReadPointer ==
    /\ phase = "reading" /\ nops < MaxOps
    /\ Returned("read_pointer", <<>>, ReadPointer(reader))

\* the caller goes on with the reader read_pointer returned
RdEnterPointer ==
    /\ phase = "reading" /\ nops < MaxOps
    /\ last.op = "read_pointer" /\ last.res.ok
    /\ reader' = last.res.val
    /\ last' = [op |-> "enter", arg |-> <<>>, before |-> reader, res |-> NoResult]
    /\ nops' = nops + 1
    /\ UNCHANGED <<phase, CodecVars, WriterVars>>

\* reader.read_till_end(), in a build with or without overflow checks
RdReadTillEnd(overflow_checks) ==
    /\ phase = "reading" /\ nops < MaxOps
    /\ Returned("read_till_end", overflow_checks, ReadTillEnd(reader, overflow_checks))

\* a static function of the input returned res; the reader is new_reader
Constructed(op, arg, res, new_reader) ==
    /\ last' = [op |-> op, arg |-> arg, before |-> reader, res |-> res]
    /\ reader' = new_reader
    /\ nops' = nops + 1
    /\ UNCHANGED <<phase, CodecVars, WriterVars>>

\* EvmDataReader::read_selector::<T>(input)
RdReadSelector(known) ==
    /\ phase = "reading" /\ nops = 0
    /\ Constructed("read_selector", known, ReadSelector(reader.input, known), reader)

\* the reader of Ok(reader), the one at hand on Err
ReaderOf(res, r) == IF res.ok THEN res.val ELSE r

\* EvmDataReader::new_skip_selector(input)
RdNewSkipSelector ==
    /\ phase = "reading" /\ nops = 0
    /\ Constructed("new_skip_selector", <<>>, NewSkipSelector(reader.input),
                   ReaderOf(NewSkipSelector(reader.input), reader))

NextReader ==
    \/ \E T \in ReadTypes : RdRead(T)
    \/ \E len \in RawLens : RdReadRawBytes(len)
    \/ RdReadPointer
    \/ RdEnterPointer
    \/ \E overflow_checks \in BOOLEAN : RdReadTillEnd(overflow_checks)
    \/ \E known \in Enumerations : RdReadSelector(known)
    \/ RdNewSkipSelector

SpecReader == InitReader /\ [][NextReader]_vars

(* Writer scenario: a chain of writes, then build *)

InitWriter ==
    /\ phase = "writing"
    /\ writer \in {NewWriter} \cup {NewWriterWithSelector(s) : s \in Selectors}
    /\ log = <<>> /\ output = <<>>
    /\ CodecIdle /\ ReaderIdle

\* writer.write(v)
WrWrite(T, v) ==
    /\ phase = "writing" /\ Len(log) < MaxWrites
    /\ writer' = Write(writer, T, v)
    /\ log' = Append(log, <<T, v>>)
    /\ UNCHANGED <<phase, output, CodecVars, ReaderVars>>

\* writer.write_pointer(data)
WrWritePointer(data) ==
    /\ phase = "writing" /\ Len(log) < MaxWrites
    /\ writer' = WritePointer(writer, data)
    /\ log' = Append(log, <<RawPointer, data>>)
    /\ UNCHANGED <<phase, output, CodecVars, ReaderVars>>

\* writer.build()
WrBuild ==
    /\ phase = "writing"
    /\ output' = <<Build(writer)>>
    /\ phase' = "built"
    /\ UNCHANGED <<writer, log, CodecVars, ReaderVars>>

NextWriter ==
    \/ \E tv \in WriteChoices : WrWrite(tv[1], tv[2])
    \/ \E data \in PointerPayloads : WrWritePointer(data)
    \/ WrBuild

SpecWriter == InitWriter /\ [][NextWriter]_vars

(* All scenarios *)

Init == InitCodec \/ InitReader \/ InitWriter
Next == NextCodec \/ NextReader \/ NextWriter
Spec == Init /\ [][Next]_vars

----------------------------------------------------------------------------
(* Properties *)

RECURSIVE WithinBound(_, _)
\* no BoundedVec<_, N> inside v holds more than N items
WithinBound(T, v) ==
    CASE Kind(T) = "BoundedVec" ->
            Len(v) <= T[3] /\ \A i \in 1..Len(v) : WithinBound(T[2], v[i])
      [] Kind(T) = "Vec" -> \A i \in 1..Len(v) : WithinBound(T[2], v[i])
      [] Kind(T) = "Tuple" -> \A i \in 1..Len(v) : WithinBound(T[2][i], v[i])
      [] OTHER -> TRUE

RECURSIVE HasBoundedVec(_)
HasBoundedVec(T) ==
    CASE Kind(T) = "BoundedVec" -> TRUE
      [] Kind(T) = "Vec" -> HasBoundedVec(T[2])
      [] Kind(T) = "Tuple" -> \E i \in 1..Len(T[2]) : HasBoundedVec(T[2][i])
      [] OTHER -> FALSE

RECURSIVE TailPadding(_, _)
\* the number of zero bytes that end encode(v) as the padding of a bytes body:
\* the payload appended last is that of the last dynamic component
TailPadding(T, v) ==
    CASE Kind(T) = "Bytes" -> (32 - (Len(v) % 32)) % 32
      [] Kind(T) \in {"Vec", "BoundedVec"} ->
            IF Len(v) = 0 \/ HasStaticSize(T[2]) THEN 0 ELSE TailPadding(T[2], v[Len(v)])
      [] Kind(T) = "Tuple" ->
            IF HasStaticSize(T) THEN 0
            ELSE LET j == CHOOSE i \in 1..Len(T[2]) :
                              /\ ~HasStaticSize(T[2][i])
                              /\ \A k \in (i + 1)..Len(T[2]) : HasStaticSize(T[2][k])
                 IN  TailPadding(T[2][j], v[j])
      [] OTHER -> 0

\* the reasons a read gives for running past the end of its input
BoundsErrors ==
    {"tried to parse H256 out of bounds", "tried to parse H160 out of bounds",
     "tried to parse U256 out of bounds", "tried to parse u16 out of bounds",
     "tried to parse u32 out of bounds", "tried to parse u64 out of bounds",
     "tried to parse u128 out of bounds", "tried to parse bool out of bounds",
     "tried to parse raw bytes out of bounds", "tried to parse array offset out of bounds",
     "pointer points out of bounds", "tried to parse array length out of bounds",
     "try to read array items out of bound", "tried to parse bytes/string length out of bounds",
     "tried to parse bytes/string out of bounds", "out of bounds: length of array",
     "read out of bounds: array content"}

TooManyItems == "value too large : Array has more than max items allowed"

IsDynamicTuple(T) == Kind(T) = "Tuple" /\ ~HasStaticSize(T)

\* C1: encode_arguments of a value of a dynamic tuple type is encode of it without
\* the leading 32-byte pointer word; for every other type the two are equal.
C1_EncodeArgumentsStripsPointer ==
    phase = "arguments" =>
        IF IsDynamicTuple(ty) THEN args = SubSeq(enc, 33, Len(enc)) ELSE args = enc

\* C2: is_explicit_tuple() is true for the tuple types and false for all others.
C2_TuplesAreExplicit == IsExplicitTuple(ty) <=> Kind(ty) = "Tuple"

\* C3: writing a value of a type without BoundedVec and reading the built bytes
\* back as the same type returns Ok of the value.
C3_RoundTrip ==
    (phase = "decoded" /\ cut = 0 /\ ~HasBoundedVec(ty)) => dec.ok /\ dec.val = val

C3_Witness ==
    /\ phase = "decoded" /\ cut = 0 /\ dec.ok
    /\ ty = TTuple(<<TU256, TBytes, TVec(TU256)>>)
    /\ Len(val[2]) = 40 /\ Len(val[3]) = 3

\* C4 as stated: reading an encoding with its last k bytes removed, k in
\* {1, 31, 32, 33}, always fails with a bounds error.
C4_TruncationAlwaysFails ==
    (phase = "decoded" /\ cut > 0 /\ WithinBound(ty, val)) =>
        ~dec.ok /\ dec.err \in BoundsErrors

\* C4 as amended: reading an encoding with its last k bytes removed fails with a
\* bounds error unless the removed bytes are all zero padding of the bytes body the
\* encoding ends with, and then it returns the value.
C4_TruncationFailsUnlessPadding ==
    (phase = "decoded" /\ cut > 0 /\ WithinBound(ty, val)) =>
        IF cut <= TailPadding(ty, val) THEN dec.ok /\ dec.val = val
        ELSE ~dec.ok /\ dec.err \in BoundsErrors

C4_Witness ==
    /\ phase = "decoded" /\ cut = 1 /\ ty = TBytes /\ val = Dave
    /\ dec.ok /\ dec.val = Dave

\* C8: a BoundedVec<T, N> is written as the Vec<T> of its items whatever its length;
\* read back, at most N items give Ok of the same items, and a length word above N
\* gives the "value too large" error even where the items are cut off.
C8_BoundedVec ==
    (phase = "decoded" /\ Kind(ty) = "BoundedVec") =>
        /\ enc = Encode(TVec(ty[2]), val)
        /\ (cut = 0 /\ Len(val) <= ty[3]) => dec.ok /\ dec.val = val
        /\ (Len(val) > ty[3] /\ Len(enc) - cut >= 64) => ~dec.ok /\ dec.err = TooManyItems

C8_Witness ==
    /\ phase = "decoded" /\ ty = TBoundedVec(TU256, 1) /\ Len(val) = 2 /\ cut = 32
    /\ ~dec.ok /\ dec.err = TooManyItems

\* the length a bounded read asks for
Requested == IF last.op = "read_raw_bytes" THEN last.arg ELSE Usize(32)

\* C5: the cursor never passes the end of the input, and a read, read_raw_bytes or
\* read_pointer either succeeds and advances the cursor by the length asked for, or
\* fails and leaves the reader as it was.
C5_CursorWithinInput ==
    /\ UsizeLeq(reader.cursor, Usize(Len(reader.input)))
    /\ last.op \in {"read", "read_raw_bytes", "read_pointer"} =>
          \/ last.res.ok /\ reader.cursor = CheckedAdd(last.before.cursor, Requested).sum
          \/ ~last.res.ok /\ reader = last.before

\* C6: read_till_end never fails: it returns the bytes from the cursor to the end
\* of the input and leaves the cursor at the end.
C6_ReadTillEndNeverFails ==
    last.op = "read_till_end" =>
        /\ last.res.ok
        /\ last.res.val = SubSeq(last.before.input, UsizeVal(last.before.cursor) + 1,
                                 Len(last.before.input))
        /\ reader.cursor = Usize(Len(reader.input))

\* the reader has a whole word at its cursor
WordAvailable(r) ==
    /\ ~CheckedAdd(r.cursor, Usize(32)).overflow
    /\ UsizeLeq(CheckedAdd(r.cursor, Usize(32)).sum, Usize(Len(r.input)))

\* the 32 bytes at the cursor
NextWord(r) == SubSeq(r.input, UsizeVal(r.cursor) + 1, UsizeVal(r.cursor) + 32)

\* the big-endian number in the 32 bytes is at least n (n below 2^31)
WordAtLeast(word, n) ==
    \/ \E i \in 1..28 : word[i] # 0
    \/ word[29] >= 128
    \/ ((word[29] * 256 + word[30]) * 256 + word[31]) * 256 + word[32] >= n

\* the big-endian number in the 32 bytes, when it is below 2^31
WordValue(word) == ((word[29] * 256 + word[30]) * 256 + word[31]) * 256 + word[32]

\* the big-endian number in the 32 bytes is below 2^64
WordFitsUsize(word) == \A i \in 1..24 : word[i] = 0

\* read_pointer returned a reader over the input of r from byte o on, at cursor 0
PointsTo(res, r, o) ==
    res.ok /\ res.val = [input |-> SubSeq(r.input, o + 1, Len(r.input)), cursor |-> Usize(0)]

\* C7 as stated: read_pointer on an offset word o gives "pointer points out of
\* bounds" whenever o >= input.len(), however large o, and the reader over
\* input[o..] otherwise.
C7_OffsetPastEndIsOutOfBounds ==
    (last.op = "read_pointer" /\ WordAvailable(last.before)) =>
        IF WordAtLeast(NextWord(last.before), Len(last.before.input))
        THEN ~last.res.ok /\ last.res.err = "pointer points out of bounds"
        ELSE PointsTo(last.res, last.before, WordValue(NextWord(last.before)))

\* C7 as amended: an offset word that does not fit a usize gives "array offset is
\* too large"; one that fits and is >= input.len() gives "pointer points out of
\* bounds"; one below input.len() gives the reader over input[o..] at cursor 0.
C7_PointerSafety ==
    (last.op = "read_pointer" /\ WordAvailable(last.before)) =>
        IF ~WordFitsUsize(NextWord(last.before))
        THEN ~last.res.ok /\ last.res.err = "array offset is too large"
        ELSE IF WordAtLeast(NextWord(last.before), Len(last.before.input))
        THEN ~last.res.ok /\ last.res.err = "pointer points out of bounds"
        ELSE PointsTo(last.res, last.before, WordValue(NextWord(last.before)))

C7_Witness ==
    /\ last.op = "read_pointer" /\ WordAvailable(last.before)
    /\ ~WordFitsUsize(NextWord(last.before))
    /\ last.res.err = "array offset is too large"

\* the writer that new() and the logged writes give
RECURSIVE Replay(_, _)
Replay(w, writes) ==
    IF writes = <<>> THEN w
    ELSE Replay(IF Kind(writes[1][1]) = Kind(RawPointer)
                THEN WritePointer(w, writes[1][2])
                ELSE Write(w, writes[1][1], writes[1][2]),
                Tail(writes))

\* the 4 big-endian bytes of a selector
SelectorBytes(s) == <<s[1] \div 256, s[1] % 256, s[2] \div 256, s[2] % 256>>

\* C9: the output of a writer with selector s is the 4 big-endian bytes of s
\* followed by the output of the same writes on a writer without selector, so the
\* bytes after the selector read back as the values written.
C9_SelectorPrepended ==
    (phase = "built" /\ writer.selector # <<>>) =>
        /\ output[1] = SelectorBytes(writer.selector[1]) \o Build(Replay(NewWriter, log))
        /\ (\A i \in 1..Len(log) : Kind(log[i][1]) # Kind(RawPointer)) =>
           ReadComponents(NewReader(SubSeq(output[1], 5, Len(output[1]))),
                             [i \in 1..Len(log) |-> log[i][1]], <<>>).val
                = [i \in 1..Len(log) |-> log[i][2]]

C9_Witness ==
    /\ phase = "built" /\ writer.selector = <<<<4660, 22136>>>>
    /\ Len(log) = 2 /\ log[1][1] = TBytes /\ log[2][1] = TVec(TBytes)
    /\ SubSeq(output[1], 1, 4) = <<18, 52, 86, 120>>

\* the contract of the two selector functions, short being the reason
\* read_selector gives for an input of fewer than 4 bytes
SelectorContract(short) ==
    /\ last.op = "read_selector" =>
          IF Len(last.before.input) < 4 THEN ~last.res.ok /\ last.res.err = short
          ELSE IF <<last.before.input[1] * 256 + last.before.input[2],
                    last.before.input[3] * 256 + last.before.input[4]>> \in last.arg
          THEN /\ last.res.ok
               /\ last.res.val = <<last.before.input[1] * 256 + last.before.input[2],
                                   last.before.input[3] * 256 + last.before.input[4]>>
          ELSE ~last.res.ok /\ last.res.err = "unknown selector"
    /\ last.op = "new_skip_selector" =>
          IF Len(last.before.input) < 4
          THEN ~last.res.ok /\ last.res.err = "input is too short"
          ELSE /\ last.res.ok
               /\ reader = [input |-> SubSeq(last.before.input, 5, Len(last.before.input)),
                            cursor |-> Usize(0)]

\* C10 as stated: on fewer than 4 bytes read_selector and new_skip_selector both
\* give "input is too short"; on 4 bytes or more read_selector gives the
\* enumeration value of the first 4 bytes as a big-endian u32, or "unknown
\* selector", and new_skip_selector gives a reader over input[4..] at cursor 0.
C10_ShortInputIsTooShort == SelectorContract("input is too short")

\* C10 as amended: as stated, except that on fewer than 4 bytes read_selector
\* gives "tried to parse selector out of bounds".
C10_SelectorExtraction == SelectorContract("tried to parse selector out of bounds")

C10_Witness ==
    /\ last.op = "read_selector" /\ Len(last.before.input) = 3
    /\ ~last.res.ok /\ last.res.err = "tried to parse selector out of bounds"

\* the bytes of the pending payloads recorded before the k-th entry
RECURSIVE PayloadBefore(_, _)
PayloadBefore(offsets, k) ==
    IF k <= 1 THEN 0 ELSE PayloadBefore(offsets, k - 1) + Len(offsets[k - 1].data)

\* the 32-byte big-endian word of a length
WordOf(n) == Zeros(28) \o <<n \div 16777216, (n \div 65536) % 256, (n \div 256) % 256, n % 256>>

\* out is writer w's data with every pending entry resolved in recorded order:
\* no subtraction underflows, every patch lies within data, each payload is
\* appended at data.len() at that moment, and the patched word is that index
\* minus offset_shift (shifted) or that index itself (~shifted)
Resolved(w, out, shifted) ==
    /\ Len(out) = Len(w.data) + PayloadBefore(w.offset_data, Len(w.offset_data) + 1)
    /\ \A k \in 1..Len(w.offset_data) :
          LET od == w.offset_data[k]
              len == Len(w.data) + PayloadBefore(w.offset_data, k)
              word == SubSeq(out, od.offset_position + 1, od.offset_position + 32)
          IN  /\ od.offset_shift <= Len(w.data)
              /\ od.offset_position + 32 <= Len(w.data)
              /\ word = WordOf(IF shifted THEN len - od.offset_shift ELSE len)
              /\ word # [i \in 1..32 |-> 255]
              /\ SubSeq(out, len + 1, len + Len(od.data)) = od.data

\* the writers the logged writes have created, the chained writer included
WritersOf(w, writes) ==
    {w} \cup UNION {InnerWriters(writes[i][1], writes[i][2]) : i \in 1..Len(writes)}

\* the output without the selector build() put in front
Unselected(w, out) == IF w.selector = <<>> THEN out ELSE SubSeq(out, 5, Len(out))

\* C11 as stated: for every writer reachable through write, the inner writers
\* of Bytes, Vec, BoundedVec and tuples included, offset_shift <= data.len() and
\* offset_position + 32 <= data.len() for every pending entry, and build()
\* resolves the entries in recorded order: the word at offset_position becomes
\* the big-endian value of data.len() at that moment minus offset_shift, that
\* value being the index at which the payload is then appended, and no 0xFF
\* placeholder word remains.
C11_PatchedWordIsAppendIndex ==
    /\ \A w \in WritersOf(writer, log) :
          /\ Resolved(w, BakeOffsets(w.data, w.offset_data), TRUE)
          /\ Resolved(w, BakeOffsets(w.data, w.offset_data), FALSE)
    /\ phase = "built" =>
          /\ Resolved(writer, Unselected(writer, output[1]), TRUE)
          /\ Resolved(writer, Unselected(writer, output[1]), FALSE)

\* C11 as amended: as stated, except that the index at which the payload is
\* appended is data.len() at that moment, so that the patched word is that index
\* minus offset_shift: the index itself for the entries of write_pointer
\* (offset_shift 0), the index minus 32 for the entries Vec and BoundedVec
\* relocate.
C11_BuildResolvesPending ==
    /\ \A w \in WritersOf(writer, log) :
          Resolved(w, BakeOffsets(w.data, w.offset_data), TRUE)
    /\ phase = "built" => Resolved(writer, Unselected(writer, output[1]), TRUE)

C11_Witness ==
    /\ phase = "built" /\ Len(writer.offset_data) = 2
    /\ \E i \in 1..Len(log) : log[i][1] = TBoundedVec(TBytes, 2)
    /\ \E w \in WritersOf(writer, log) :
          /\ Len(w.offset_data) >= 2
          /\ \A k \in 1..Len(w.offset_data) : w.offset_data[k].offset_shift = 32

\* the payload the head of an item of type T points to
PayloadOf(T, v) == SubSeq(Encode(T, v), 33, Len(Encode(T, v)))

\* the bytes of the payloads of the items before the i-th
RECURSIVE PayloadsBefore(_, _, _)
PayloadsBefore(T, vs, i) ==
    IF i <= 1 THEN 0 ELSE PayloadsBefore(T, vs, i - 1) + Len(PayloadOf(T, vs[i - 1]))

\* a sequence type whose items are dynamic
IsSequenceOfDynamic(T) == Kind(T) \in {"Vec", "BoundedVec"} /\ ~HasStaticSize(T[2])

\* in body = [length word][head 1]..[head n][payloads], the payload of item i
\* starts where the payloads before it end, and the word in head i is the
\* distance to it from the start of head i, not the distance from the length word
ItemPointers(body, T, vs) ==
    \A i \in 1..Len(vs) :
        LET head == 32 + 32 * (i - 1)
            start == 32 + 32 * Len(vs) + PayloadsBefore(T, vs, i)
        IN  /\ SubSeq(body, start + 1, start + Len(PayloadOf(T, vs[i]))) = PayloadOf(T, vs[i])
            /\ SubSeq(body, head + 1, head + 32) = WordOf(start - head)
            /\ SubSeq(body, head + 1, head + 32) # WordOf(start)

\* C12: in the encoding of a sequence of dynamic items, the pointer word in the
\* head of item i is the distance from the start of item i's own head to the
\* start of the item's payload, not the distance from the length word.
C12_PointerFromOwnHead ==
    (phase = "encoded" /\ IsSequenceOfDynamic(ty)) =>
        ItemPointers(SubSeq(enc, 33, Len(enc)), ty[2], val)

====
